---- MODULE Spec2Model ----
(***************************************************************************)
(* The Pig dice game engine.  Two Game classes live in the repository: the *)
(* monolithic Game of src/src/game.py ("Game") and the manager facade of   *)
(* src/src/game/game.py, which delegates to StateManager, MoveManager,     *)
(* CheatManager and PersistenceManager ("Facade").  A behaviour constructs *)
(* one of the two and then drives it through its public operations.        *)
(***************************************************************************)
EXTENDS Integers, Sequences, FiniteSets, TLC

\* ---------------------------------------------------------------- constants
WINNING_SCORE == 100
Sides == 6

\* ------------------------------------------------------------------- bounds
MaxFace == 1        \* a die shows 1..MaxFace or its top face
MaxRolls == 2       \* rolls and AI turns started in one behaviour
MaxCheats == 1      \* cheat codes entered in one behaviour
MaxIds == 3         \* the largest uuid a Player is given
MaxDraws == 4       \* values one AI turn may draw
MaxCheatsW == 5     \* cheat codes entered where the turn total is pushed to a win
MaxDamaged == 1     \* damaged save files loaded in one behaviour
MaxRollsT == 4      \* rolls and AI turns started where turn records are summed

VARIABLES impl, player1, player2, current_player, turn_score, game_over,
          winner, computer_won, computer_score, current_difficulty,
          intelligence, turn_history, dice_history, detached, file, saved,
          result, cheats, drawn, histogram, damaged, ai, recorded

vars == <<impl, player1, player2, current_player, turn_score, game_over,
          winner, computer_won, computer_score, current_difficulty,
          intelligence, turn_history, dice_history, detached, file, saved,
          result, cheats, drawn, histogram, damaged, ai,
          recorded>>

\* ------------------------------------------------------------------ players
\* Python's None where a Player is expected.
NoPlayer == [name |-> "None", id |-> 0, score |-> 0]

\* Player.__init__: the given name, a fresh uuid, score 0.
Player(name, id) == [name |-> name, id |-> id, score |-> 0]

\* Player.set_name_safely / the name setter, on a non-empty name.
set_name(p, new_name) == [p EXCEPT !.name = new_name]

\* Player.add_to_score: the caller has checked points >= 0.
add_to_score(p, points) == [p EXCEPT !.score = p.score + points]

\* Player.reset_score
reset_score(p) == [p EXCEPT !.score = 0]

\* Player.set_score: the caller has checked score >= 0.
set_score(p, score) == [p EXCEPT !.score = score]

\* The program state as one record, so that operations compose.  detached is
\* the Player object that is no longer player1 or player2 of the state while
\* the current player or the winner still refers to it.
S == [player1 |-> player1, player2 |-> player2,
      current_player |-> current_player, turn_score |-> turn_score,
      game_over |-> game_over, winner |-> winner,
      computer_won |-> computer_won, computer_score |-> computer_score,
      current_difficulty |-> current_difficulty,
      intelligence |-> intelligence,
      turn_history |-> turn_history, dice_history |-> dice_history,
      detached |-> detached]

Set(g) ==
    /\ player1' = g.player1
    /\ player2' = g.player2
    /\ current_player' = g.current_player
    /\ turn_score' = g.turn_score
    /\ game_over' = g.game_over
    /\ winner' = g.winner
    /\ computer_won' = g.computer_won
    /\ computer_score' = g.computer_score
    /\ current_difficulty' = g.current_difficulty
    /\ intelligence' = g.intelligence
    /\ turn_history' = g.turn_history
    /\ dice_history' = g.dice_history
    /\ detached' = IF "detached" \in {g.current_player, g.winner}
                   THEN g.detached ELSE NoPlayer

\* The Player object a slot reference denotes.
Deref(g, ref) == IF ref = "player1" THEN g.player1
                 ELSE IF ref = "player2" THEN g.player2
                 ELSE IF ref = "detached" THEN g.detached
                 ELSE NoPlayer

\* Die.roll / DiceHand.roll_all with one die: a value in 1..Sides.
DieFaces == (1..MaxFace) \cup {Sides}

\* ====================================================== Game (src/game.py)
\* Fault: the turn total is cleared but the turn stays with the same player.
_end_turn_keeps_player(g) == [g EXCEPT !.turn_score = 0]

\* Game._end_turn
_end_turn(g) ==
    [g EXCEPT !.turn_score = 0,
              !.current_player =
                  IF g.player2 # NoPlayer
                  THEN (IF g.current_player = "player1" THEN "player2"
                        ELSE "player1")
                  ELSE (IF g.current_player = "player1" THEN "None"
                        ELSE "player1")]

\* Game._end_game
_end_game(g) == [g EXCEPT !.game_over = TRUE, !.winner = g.current_player]

\* Fault: the value rolled is not appended to the dice history.
roll_dice_unrecorded(g, roll) ==
    IF g.game_over THEN [g |-> g, raised |-> TRUE]
    ELSE [g |-> IF roll = 1 THEN _end_turn([g EXCEPT !.turn_score = 0])
                ELSE [g EXCEPT !.turn_score = g.turn_score + roll],
          raised |-> FALSE]

\* Fault: the die is rolled without looking at game_over.
roll_dice_unchecked(g, roll) ==
    LET h == [g EXCEPT !.dice_history = Append(g.dice_history, roll)]
    IN [g |-> IF roll = 1 THEN _end_turn([h EXCEPT !.turn_score = 0])
              ELSE [h EXCEPT !.turn_score = h.turn_score + roll],
        raised |-> FALSE]

\* Fault: the value rolled is put at the head of the dice history.
roll_dice_prepending(g, roll) ==
    IF g.game_over THEN [g |-> g, raised |-> TRUE]
    ELSE LET h == [g EXCEPT !.dice_history = <<roll>> \o g.dice_history]
         IN [g |-> IF roll = 1 THEN _end_turn([h EXCEPT !.turn_score = 0])
                   ELSE [h EXCEPT !.turn_score = h.turn_score + roll],
             raised |-> FALSE]

\* Game.roll_dice with the value the die shows: the state after the call
\* and whether it raised ValueError.
roll_dice(g, roll) ==
    IF g.game_over THEN [g |-> g, raised |-> TRUE]
    ELSE LET h == [g EXCEPT !.dice_history = Append(g.dice_history, roll)]
         IN [g |-> IF roll = 1 THEN _end_turn([h EXCEPT !.turn_score = 0])
                   ELSE [h EXCEPT !.turn_score = h.turn_score + roll],
             raised |-> FALSE]

\* Fault: the points are banked and the turn passes without the check
\* against WINNING_SCORE.
hold_without_win_check(g) ==
    IF g.game_over \/ g.turn_score = 0 THEN [g |-> g, raised |-> TRUE]
    ELSE [g |-> _end_turn(
                    IF g.current_player = "player1"
                    THEN [g EXCEPT !.player1 =
                                       add_to_score(g.player1, g.turn_score)]
                    ELSE IF g.current_player = "player2"
                    THEN [g EXCEPT !.player2 =
                                       add_to_score(g.player2, g.turn_score)]
                    ELSE [g EXCEPT !.computer_score =
                                       g.computer_score + g.turn_score]),
          raised |-> FALSE]

\* Fault: the record keeps the total the holder had before the hold.
hold_recording_old_total(g) ==
    LET credited ==
            IF g.current_player = "player1"
            THEN [g EXCEPT !.player1 = add_to_score(g.player1, g.turn_score)]
            ELSE IF g.current_player = "player2"
            THEN [g EXCEPT !.player2 = add_to_score(g.player2, g.turn_score)]
            ELSE [g EXCEPT !.computer_score = g.computer_score + g.turn_score]
        current_score ==
            IF g.current_player = "None" THEN credited.computer_score
            ELSE Deref(credited, g.current_player).score
        rec == [player |-> IF g.current_player = "None" THEN "Computer"
                           ELSE Deref(g, g.current_player).name,
                turn_score |-> g.turn_score,
                total_score |-> current_score - g.turn_score]
        h == [credited EXCEPT !.turn_history = Append(g.turn_history, rec)]
    IN IF g.game_over \/ g.turn_score = 0 THEN [g |-> g, raised |-> TRUE]
       ELSE IF g.current_player # "None" /\ g.turn_score < 0
       THEN [g |-> g, raised |-> TRUE]
       ELSE [g |-> IF current_score >= WINNING_SCORE
                   THEN IF g.current_player = "None"
                        THEN [h EXCEPT !.computer_won = TRUE,
                                       !.game_over = TRUE]
                        ELSE _end_game(h)
                   ELSE _end_turn(h),
             raised |-> FALSE]

\* Game.hold: the state after the call and whether it raised ValueError.
hold(g) ==
    LET credited ==
            IF g.current_player = "player1"
            THEN [g EXCEPT !.player1 = add_to_score(g.player1, g.turn_score)]
            ELSE IF g.current_player = "player2"
            THEN [g EXCEPT !.player2 = add_to_score(g.player2, g.turn_score)]
            ELSE [g EXCEPT !.computer_score = g.computer_score + g.turn_score]
        current_score ==
            IF g.current_player = "None" THEN credited.computer_score
            ELSE Deref(credited, g.current_player).score
        rec == [player |-> IF g.current_player = "None" THEN "Computer"
                           ELSE Deref(g, g.current_player).name,
                turn_score |-> g.turn_score,
                total_score |-> current_score]
        h == [credited EXCEPT !.turn_history = Append(g.turn_history, rec)]
    IN IF g.game_over \/ g.turn_score = 0 THEN [g |-> g, raised |-> TRUE]
       ELSE IF g.current_player # "None" /\ g.turn_score < 0
       THEN [g |-> g, raised |-> TRUE]    \* Player.add_to_score refuses
       ELSE [g |-> IF current_score >= WINNING_SCORE
                   THEN IF g.current_player = "None"
                        THEN [h EXCEPT !.computer_won = TRUE,
                                       !.game_over = TRUE]
                        ELSE _end_game(h)
                   ELSE _end_turn(h),
             raised |-> FALSE]

\* Fault: the two histories survive the restart.
restart_keeping_histories(g) ==
    [g EXCEPT !.player1 = reset_score(g.player1),
              !.player2 = IF g.player2 # NoPlayer THEN reset_score(g.player2)
                          ELSE g.player2,
              !.computer_score = 0, !.computer_won = FALSE,
              !.current_player = "player1", !.turn_score = 0,
              !.game_over = FALSE, !.winner = "None"]

\* Fault: the turn total is handed to player1 instead of being dropped.
restart_banking(g) ==
    [g EXCEPT !.player1 = set_score(g.player1, g.turn_score),
              !.player2 = IF g.player2 # NoPlayer THEN reset_score(g.player2)
                          ELSE g.player2,
              !.computer_score = 0, !.computer_won = FALSE,
              !.current_player = "player1", !.turn_score = 0,
              !.game_over = FALSE, !.winner = "None",
              !.turn_history = <<>>, !.dice_history = <<>>]

\* Game.restart
restart(g) ==
    [g EXCEPT !.player1 = reset_score(g.player1),
              !.player2 = IF g.player2 # NoPlayer THEN reset_score(g.player2)
                          ELSE g.player2,
              !.computer_score = 0, !.computer_won = FALSE,
              !.current_player = "player1", !.turn_score = 0,
              !.game_over = FALSE, !.winner = "None",
              !.turn_history = <<>>, !.dice_history = <<>>]

\* --------------------------------------------------------------- AI draws
Tiers == {"noob", "casual", "challenger", "veteran", "elite", "legendary"}

\* str.lower() on the difficulty labels a caller passes.
Lower(d) ==
    CASE d = "Noob" -> "noob"
      [] d = "LEGENDARY" -> "legendary"
      [] OTHER -> d

\* roll_counts: the roll cap of each tier.
roll_counts(mode) ==
    CASE mode = "noob" -> 2
      [] mode = "casual" -> 4
      [] mode = "challenger" -> 6
      [] mode = "veteran" -> 8
      [] mode = "elite" -> 10
      [] mode = "legendary" -> 12

\* Fault: the top tier never draws a 1.
pattern_sparing_legendary(mode) ==
    IF mode = "legendary" THEN 2..6 ELSE 1..6

\* DiceDifficulty.noob .. legendary: the values _roll_pattern can return,
\* the union of the tier's lists.
pattern(mode) ==
    CASE mode = "noob" -> 1..6
      [] mode = "casual" -> (1..6) \cup (2..6)
      [] mode = "challenger" -> (1..6) \cup (2..6) \cup (3..6)
      [] mode = "veteran" -> (1..6) \cup (2..6) \cup (3..6) \cup (4..6)
      [] mode = "elite" ->
             (1..6) \cup (2..6) \cup (3..6) \cup (4..6) \cup (5..6)
      [] mode = "legendary" ->
             (1..6) \cup (2..6) \cup (3..6) \cup (4..6) \cup (5..6) \cup {6}

\* The draws one AI turn of at most cap rolls consumes: it stops at the
\* first 1, otherwise it takes cap values.  At most room of them are listed.
RECURSIVE DrawsUpTo(_, _, _)
DrawsUpTo(faces, cap, room) ==
    IF cap = 0 THEN {<<>>}
    ELSE IF room = 0 THEN {}
    ELSE {<<1>>} \cup
         {<<v>> \o t : v \in faces \ {1},
                       t \in DrawsUpTo(faces, cap - 1, room - 1)}

Draws(mode, room) ==
    DrawsUpTo(pattern(mode) \cap DieFaces, roll_counts(mode), room)

\* Game.computer_turn: the for loop over the values drawn.
RECURSIVE ai_rolls(_, _)
ai_rolls(g, draws) ==
    IF draws = <<>> THEN g
    ELSE LET ai_roll == Head(draws)
             h == [g EXCEPT !.dice_history = Append(g.dice_history, ai_roll)]
         IN IF ai_roll = 1 THEN _end_turn([h EXCEPT !.turn_score = 0])
            ELSE ai_rolls([h EXCEPT !.turn_score = h.turn_score + ai_roll],
                          Tail(draws))

\* Game.computer_turn past its two checks: the loop, then the final hold.
computer_turn(g, draws) ==
    LET h == ai_rolls(g, draws)
    IN IF h.turn_score > 0 /\ ~h.game_over THEN hold(h).g ELSE h

\* The tier whose cap and pattern Game.computer_turn uses: an unknown label
\* falls back to casual.
ModeUsed(difficulty_to_use) ==
    IF Lower(difficulty_to_use) \in Tiers THEN Lower(difficulty_to_use)
    ELSE "casual"

\* str(mode).strip().lower() on the labels DiceDifficulty.roll is given.
StripLower(mode) ==
    CASE mode = " Noob " -> "noob"
      [] mode = "  ELITE  " -> "elite"
      [] OTHER -> Lower(mode)

\* The values the tier's method yields to one call of DiceDifficulty.roll,
\* as many as the cap: safe values, then possibly a 1 and the top face
\* after it.  The safe values are the smallest and the largest one.
RECURSIVE Fill(_)
Fill(n) == IF n = 0 THEN <<>> ELSE <<Sides>> \o Fill(n - 1)

RECURSIVE Sequences(_, _)
Sequences(faces, n) ==
    IF n = 0 THEN {<<>>}
    ELSE {<<1>> \o Fill(n - 1)} \cup
         {<<v>> \o t : v \in faces \ {1}, t \in Sequences(faces, n - 1)}

\* Fault: a 1 is added to the total like any other value.
RECURSIVE roll_loop_summing(_, _, _, _)
roll_loop_summing(sequence, count, total, i) ==
    IF i > count THEN [ret |-> total, draws |-> count]
    ELSE roll_loop_summing(sequence, count, total + sequence[i], i + 1)

\* Fault: at a 1 the total so far is returned.
RECURSIVE roll_loop_returning_total(_, _, _, _)
roll_loop_returning_total(sequence, count, total, i) ==
    IF i > count THEN [ret |-> total, draws |-> count]
    ELSE IF sequence[i] = 1 THEN [ret |-> total, draws |-> i]
    ELSE roll_loop_returning_total(sequence, count, total + sequence[i],
                                   i + 1)

\* DiceDifficulty.roll, the for loop: iteration i with the total so far;
\* the value returned and the number of values drawn.
RECURSIVE roll_loop(_, _, _, _)
roll_loop(sequence, count, total, i) ==
    IF i > count THEN [ret |-> total, draws |-> count]
    ELSE IF sequence[i] = 1 THEN [ret |-> 1, draws |-> i]
    ELSE roll_loop(sequence, count, total + sequence[i], i + 1)

\* Fault: a label that is no tier is played as casual.
DiceDifficulty_roll_lenient(mode, sequence) ==
    LET m == IF StripLower(mode) \in Tiers THEN StripLower(mode) ELSE "casual"
        r == roll_loop(sequence \o Fill(roll_counts(m)), roll_counts(m), 0, 1)
    IN [raised |-> FALSE, ret |-> r.ret, draws |-> r.draws]

\* DiceDifficulty.roll(mode) with the values the tier's method yields.
DiceDifficulty_roll(mode, sequence) ==
    LET m == StripLower(mode)
    IN IF m \notin Tiers
       THEN [raised |-> TRUE, ret |-> 0, draws |-> 0]
       ELSE LET r == roll_loop(sequence, roll_counts(m), 0, 1)
            IN [raised |-> FALSE, ret |-> r.ret, draws |-> r.draws]

\* ------------------------------------------------------------------- setup
\* Game.setup_game_vs_computer
setup_game_vs_computer(g) ==
    restart([g EXCEPT !.player2 = NoPlayer, !.intelligence = TRUE,
                      !.current_player = "player1"])

\* Game.setup_game_vs_player: the state and whether the game was set up;
\* id is the uuid a newly created Player gets.  A Player created with an
\* empty name is called "Player"; an existing player2 refuses an empty
\* name, and the call returns before anything is assigned or restarted.
setup_game_vs_player(g, player2_name, id) ==
    IF g.player2 # NoPlayer /\ player2_name = ""
    THEN [g |-> g, ok |-> FALSE]
    ELSE [g |-> restart(
                    [g EXCEPT !.player2 =
                                  IF g.player2 = NoPlayer
                                  THEN Player(IF player2_name = ""
                                              THEN "Player"
                                              ELSE player2_name, id)
                                  ELSE set_name(g.player2, player2_name),
                              !.intelligence = FALSE,
                              !.current_player = "player1"]),
          ok |-> TRUE]

\* Game.set_player_name: player1 takes the name unless it is empty; the
\* state and the value returned.
set_player_name(g, new_name) ==
    IF new_name = "" THEN [g |-> g, ret |-> FALSE]
    ELSE [g |-> [g EXCEPT !.player1 = set_name(g.player1, new_name)],
          ret |-> TRUE]

\* Game.set_player2_name with a non-empty name.
set_player2_name(g, new_name, id) ==
    IF g.player2 = NoPlayer
    THEN [g EXCEPT !.player2 = Player(new_name, id), !.intelligence = FALSE]
    ELSE [g EXCEPT !.player2 = set_name(g.player2, new_name)]

\* Game.set_difficulty: the state and the value returned.
set_difficulty(g, difficulty) ==
    IF g.intelligence /\ Lower(difficulty) \in Tiers
    THEN [g |-> [g EXCEPT !.current_difficulty = Lower(difficulty)],
          ret |-> TRUE]
    ELSE [g |-> g, ret |-> FALSE]

\* ------------------------------------------------------------- persistence
NoFile == [exists |-> FALSE]
NoData == [name |-> "None", current_score |-> 0]

\* Game.save_game: the dictionary handed to SaveManager.save_game, which
\* writes it as JSON; reading the current player's name fails when the
\* current player is None.
save_data(g) ==
    [exists |-> TRUE,
     player1 |-> [name |-> g.player1.name,
                  current_score |-> g.player1.score],
     player2 |-> IF g.player2 # NoPlayer
                 THEN [name |-> g.player2.name,
                       current_score |-> g.player2.score]
                 ELSE NoData,
     current_player_name |-> Deref(g, g.current_player).name,
     turn_score |-> g.turn_score,
     game_over |-> g.game_over,
     winner_name |-> IF g.winner # "None" THEN Deref(g, g.winner).name
                     ELSE "None",
     current_difficulty |-> g.current_difficulty,
     turn_history |-> g.turn_history,
     dice_history |-> g.dice_history]

\* Game.load_game on a record that SaveManager.load_game parsed; id is the
\* uuid of the Player created when the record has a second player and the
\* game has none.
load_game(g, d, id) ==
    LET p1 == set_score(set_name(g.player1, d.player1.name),
                        d.player1.current_score)
        p2 == IF d.player2 # NoData
              THEN set_score(IF g.player2 = NoPlayer
                             THEN Player(d.player2.name, id)
                             ELSE set_name(g.player2, d.player2.name),
                             d.player2.current_score)
              ELSE g.player2
        cur == IF d.current_player_name = p1.name THEN "player1"
               ELSE IF p2 # NoPlayer /\ d.current_player_name = p2.name
               THEN "player2"
               ELSE g.current_player
        win == IF d.winner_name # "None"
               THEN IF d.winner_name = p1.name THEN "player1"
                    ELSE IF p2 # NoPlayer /\ d.winner_name = p2.name
                    THEN "player2"
                    ELSE g.winner
               ELSE g.winner
    IN [g EXCEPT !.player1 = p1, !.player2 = p2, !.current_player = cur,
                 !.turn_score = d.turn_score, !.game_over = d.game_over,
                 !.current_difficulty = d.current_difficulty,
                 !.turn_history = d.turn_history,
                 !.dice_history = d.dice_history,
                 !.winner = win]

\* What may be wrong with the save file a load names: nothing, text that
\* json.load rejects, a score below 0, a key that is absent, a
\* current-player name no stored player carries, a game_over flag that is
\* not the one that was saved, a difficulty that is no tier.  The absent
\* key is the first one read after the players (turn_score), or one read
\* after histories were assigned (dice_history, winner_name).
Damages == {"None", "unparsable", "negative player1 score",
            "negative player2 score", "no turn_score",
            "no dice_history", "no winner_name",
            "unknown current player", "wrong game_over",
            "unknown difficulty"}

\* The dictionary json.load returns for a damaged file of Game.save_game.
Damaged(d, damage) ==
    IF damage = "negative player1 score"
    THEN [d EXCEPT !.player1.current_score = -1]
    ELSE IF damage = "negative player2 score" /\ d.player2 # NoData
    THEN [d EXCEPT !.player2.current_score = -1]
    ELSE IF damage = "unknown current player"
    THEN [d EXCEPT !.current_player_name = "Zed"]
    ELSE IF damage = "wrong game_over"
    THEN [d EXCEPT !.game_over = ~d.game_over]
    ELSE IF damage = "unknown difficulty"
    THEN [d EXCEPT !.current_difficulty = "bogus"]
    ELSE IF damage = "negative turn_score"
    THEN [d EXCEPT !.turn_score = -5]
    ELSE d

\* Game.load_game on an existing file: SaveManager.load_game returns None
\* for text that does not parse; the assignments made before set_score or a
\* key lookup raises stay, since the except clause only returns a message:
\* the players for an absent turn_score, the turn history as well for an
\* absent dice_history, both histories for an absent winner_name.
load_game_file(g, d, id, damage) ==
    IF damage = "unparsable" THEN [g |-> g, ok |-> FALSE]
    ELSE
    LET named1 == [g EXCEPT !.player1 = set_name(g.player1, d.player1.name)]
        scored1 == [named1 EXCEPT !.player1 =
                        set_score(named1.player1, d.player1.current_score)]
        named2 == IF d.player2 # NoData
                  THEN [scored1 EXCEPT !.player2 =
                            IF g.player2 = NoPlayer
                            THEN Player(d.player2.name, id)
                            ELSE set_name(g.player2, d.player2.name)]
                  ELSE scored1
        scored2 == IF d.player2 # NoData
                   THEN [named2 EXCEPT !.player2 =
                             set_score(named2.player2,
                                       d.player2.current_score)]
                   ELSE named2
        current == [scored2 EXCEPT !.current_player =
                       IF d.current_player_name = scored2.player1.name
                       THEN "player1"
                       ELSE IF scored2.player2 # NoPlayer
                               /\ d.current_player_name = scored2.player2.name
                       THEN "player2"
                       ELSE g.current_player]
        turns == [current EXCEPT !.turn_score = d.turn_score,
                                 !.game_over = d.game_over,
                                 !.current_difficulty = d.current_difficulty,
                                 !.turn_history = d.turn_history]
        rolls == [turns EXCEPT !.dice_history = d.dice_history]
    IN IF d.player1.current_score < 0 THEN [g |-> named1, ok |-> FALSE]
       ELSE IF d.player2 # NoData /\ d.player2.current_score < 0
       THEN [g |-> named2, ok |-> FALSE]
       ELSE IF damage = "no turn_score" THEN [g |-> current, ok |-> FALSE]
       ELSE IF damage = "no dice_history" THEN [g |-> turns, ok |-> FALSE]
       ELSE IF damage = "no winner_name" THEN [g |-> rolls, ok |-> FALSE]
       ELSE [g |-> load_game(g, d, id), ok |-> TRUE]

\* ------------------------------------------------------------- cheat codes
\* str.strip().upper() on the codes a user types.
StripUpper(code) ==
    CASE code = " win " -> "WIN"
      [] code = "bonus5" -> "BONUS5"
      [] code = "  " -> ""
      [] OTHER -> code

AllCheatInputs == {"WIN", " win ", "SCORE10", "SCORE25", "BONUS5",
                   "bonus5", "BONUS15", "LIST", "HELP", "XYZ", "  "}
CheatInputs == {"WIN", " win ", "SCORE25", "BONUS15", "LIST", "XYZ", "  "}

\* CheatManager.apply_cheat(cheat_code, player, winning_score, game): the
\* state after the call, with success set, or raised set when
\* Player.add_to_score refused negative points.
CheatManager_apply_cheat(g, cheat_code, target, winning_score) ==
    LET code == StripUpper(cheat_code)
        p == Deref(g, target)
        credit(n) ==
            IF target = "player1"
            THEN [g EXCEPT !.player1 = add_to_score(p, n)]
            ELSE [g EXCEPT !.player2 = add_to_score(p, n)]
    IN CASE code = "WIN" ->
              IF winning_score - p.score < 0
              THEN [g |-> g, success |-> FALSE, raised |-> TRUE]
              ELSE [g |-> credit(winning_score - p.score),
                    success |-> TRUE, raised |-> FALSE]
         [] code = "SCORE10" ->
              [g |-> [g EXCEPT !.turn_score = g.turn_score + 10],
               success |-> TRUE, raised |-> FALSE]
         [] code = "SCORE25" ->
              [g |-> [g EXCEPT !.turn_score = g.turn_score + 25],
               success |-> TRUE, raised |-> FALSE]
         [] code = "BONUS5" ->
              [g |-> credit(5), success |-> TRUE, raised |-> FALSE]
         [] code = "BONUS15" ->
              [g |-> credit(15), success |-> TRUE, raised |-> FALSE]
         [] OTHER -> [g |-> g, success |-> FALSE, raised |-> FALSE]

\* Game.apply_cheat and Game.input_cheat_code, were they to drop the turn
\* total whenever the code was refused.
apply_cheat_dropping_turn(g, cheat_code) ==
    LET target_player == IF g.current_player # "None" THEN g.current_player
                         ELSE "player1"
        r == CheatManager_apply_cheat(g, cheat_code, target_player,
                                      WINNING_SCORE)
    IN IF r.success /\ StripUpper(cheat_code) = "WIN"
       THEN [r EXCEPT !.g = [r.g EXCEPT !.game_over = TRUE,
                                       !.winner = target_player]]
       ELSE IF ~r.success /\ ~r.raised
       THEN [r EXCEPT !.g = [r.g EXCEPT !.turn_score = 0]]
       ELSE r

\* Game.apply_cheat and Game.input_cheat_code past the empty-code check:
\* both pick the target, delegate, and end the game on a successful WIN.
apply_cheat(g, cheat_code) ==
    LET target_player == IF g.current_player # "None" THEN g.current_player
                         ELSE "player1"
        r == CheatManager_apply_cheat(g, cheat_code, target_player,
                                      WINNING_SCORE)
    IN IF r.success /\ StripUpper(cheat_code) = "WIN"
       THEN [r EXCEPT !.g = [r.g EXCEPT !.game_over = TRUE,
                                       !.winner = target_player]]
       ELSE r

\* ============================== Facade (src/game/game.py, src/managers/*)
\* The winning score the facade's StateManager is constructed with.
winning_score == 15

\* StateManager.switch_player
switch_player(g) ==
    IF g.player1 = NoPlayer THEN g
    ELSE IF g.player2 # NoPlayer
    THEN [g EXCEPT !.current_player =
                       IF g.current_player = "player1" THEN "player2"
                       ELSE "player1"]
    ELSE IF g.current_player = "player1"
    THEN [g EXCEPT !.current_player = "computer"]
    ELSE IF g.current_player = "computer"
    THEN [g EXCEPT !.current_player = "player1"]
    ELSE g

\* MoveManager._end_turn
MoveManager_end_turn(g) == IF ~g.game_over THEN switch_player(g) ELSE g

\* MoveManager._check_win_condition: the state and the value returned.
check_win_condition(g, player) ==
    LET score == IF player = "computer" THEN g.computer_score
                 ELSE Deref(g, player).score
    IN IF score >= winning_score
       THEN [g |-> IF player = "computer"
                   THEN [g EXCEPT !.game_over = TRUE, !.computer_won = TRUE,
                                  !.winner = "None"]
                   ELSE [g EXCEPT !.game_over = TRUE, !.winner = player],
             ret |-> TRUE]
       ELSE [g |-> g, ret |-> FALSE]

\* MoveManager.roll_dice with the value the die showed.
MoveManager_roll_dice(g, roll_value) ==
    IF g.game_over \/ g.current_player = "None" THEN [g |-> g, ret |-> 0]
    ELSE [g |-> IF roll_value = 1
                THEN MoveManager_end_turn([g EXCEPT !.turn_score = 0])
                ELSE [g EXCEPT !.turn_score = g.turn_score + roll_value],
          ret |-> roll_value]

\* MoveManager.hold: the state and whether the call was accepted.
MoveManager_hold(g) ==
    IF g.game_over \/ g.current_player = "None"
    THEN [g |-> g, ret |-> "Cannot hold"]
    ELSE IF g.current_player # "computer" /\ g.turn_score < 0
    THEN [g |-> g, ret |-> "ValueError"]    \* Player.add_to_score refuses
    ELSE LET score_to_add == g.turn_score
             cp == g.current_player
             credited ==
                 IF cp = "computer"
                 THEN [g EXCEPT !.computer_score =
                                    g.computer_score + score_to_add]
                 ELSE IF cp = "player1"
                 THEN [g EXCEPT !.player1 =
                                    add_to_score(g.player1, score_to_add)]
                 ELSE IF cp = "player2"
                 THEN [g EXCEPT !.player2 =
                                    add_to_score(g.player2, score_to_add)]
                 ELSE [g EXCEPT !.detached =
                                    add_to_score(g.detached, score_to_add)]
             w == check_win_condition([credited EXCEPT !.turn_score = 0], cp)
         IN IF w.ret THEN [g |-> w.g, ret |-> "wins"]
            ELSE [g |-> MoveManager_end_turn(w.g), ret |-> "held"]

\* DiceDifficulty.roll on a known tier: 1 at the first 1, else the sum.
RECURSIVE roll_total(_, _)
roll_total(draws, total) ==
    IF draws = <<>> THEN total
    ELSE IF Head(draws) = 1 THEN 1
    ELSE roll_total(Tail(draws), total + Head(draws))

\* MoveManager.execute_computer_turn with the values the AI drew.
execute_computer_turn(g, draws) ==
    LET computer_turn_score == roll_total(draws, 0)
    IN IF StripLower(g.current_difficulty) \notin Tiers
       THEN [g |-> g, ret |-> "AI Error"]
       ELSE IF computer_turn_score = 1
       THEN [g |-> MoveManager_end_turn([g EXCEPT !.turn_score = 0]),
             ret |-> "busted"]
       ELSE LET h == MoveManager_hold(
                         [g EXCEPT !.turn_score = computer_turn_score])
            IN [g |-> h.g, ret |-> h.ret]

\* Fault: the difficulty falls back to the default.
reset_for_new_game_casual(g) ==
    [g EXCEPT !.player1 = IF g.player1 # NoPlayer THEN reset_score(g.player1)
                          ELSE g.player1,
              !.player2 = IF g.player2 # NoPlayer THEN reset_score(g.player2)
                          ELSE g.player2,
              !.computer_score = 0, !.turn_score = 0, !.game_over = FALSE,
              !.winner = "None", !.computer_won = FALSE,
              !.current_difficulty = "casual",
              !.current_player = IF g.player1 # NoPlayer THEN "player1"
                                 ELSE g.current_player]

\* StateManager.reset_for_new_game
reset_for_new_game(g) ==
    [g EXCEPT !.player1 = IF g.player1 # NoPlayer THEN reset_score(g.player1)
                          ELSE g.player1,
              !.player2 = IF g.player2 # NoPlayer THEN reset_score(g.player2)
                          ELSE g.player2,
              !.computer_score = 0, !.turn_score = 0, !.game_over = FALSE,
              !.winner = "None", !.computer_won = FALSE,
              !.current_player = IF g.player1 # NoPlayer THEN "player1"
                                 ELSE g.current_player]

\* MoveManager.apply_cheat: without a current player a message is returned;
\* otherwise CheatManager.apply_cheat is called with the keyword
\* state_manager, which its signature (game=None) does not accept.
MoveManager_apply_cheat(g, cheat_code) ==
    IF g.current_player = "None" THEN [g |-> g, ret |-> "no current player"]
    ELSE [g |-> g, ret |-> "TypeError"]

\* GameSetupManager.setup_game_vs_computer
GameSetupManager_setup_game_vs_computer(g) ==
    [reset_for_new_game([g EXCEPT !.player2 = NoPlayer,
                                  !.computer_score = 0])
        EXCEPT !.current_player = "player1"]

\* GameSetupManager.setup_game_vs_player; id is the uuid of a new Player.
GameSetupManager_setup_game_vs_player(g, id) ==
    [reset_for_new_game(
         [g EXCEPT !.player2 = IF g.player2 = NoPlayer
                               THEN Player("Player 2", id) ELSE g.player2,
                   !.computer_score = 0])
        EXCEPT !.current_player = "player1"]

\* GameSetupManager.set_player_name: the facade always holds a player1,
\* which takes the name unless it is empty.
GameSetupManager_set_player_name(g, name) ==
    IF name = "" THEN [g |-> g, ret |-> FALSE]
    ELSE [g |-> [g EXCEPT !.player1 = set_name(g.player1, name)],
          ret |-> TRUE]

\* GameSetupManager.set_player2_name with a non-empty name.
GameSetupManager_set_player2_name(g, name, id) ==
    IF g.player2 = NoPlayer
    THEN [g EXCEPT !.player2 = Player(name, id), !.computer_score = 0]
    ELSE [g EXCEPT !.player2 = set_name(g.player2, name)]

\* GameSetupManager.set_difficulty: the state and the value returned.
GameSetupManager_set_difficulty(g, difficulty) ==
    IF Lower(difficulty) \in Tiers
    THEN [g |-> [g EXCEPT !.current_difficulty = Lower(difficulty)],
          ret |-> TRUE]
    ELSE [g |-> g, ret |-> FALSE]

\* StateManager.get_state_for_save, written as JSON by SaveManager.save_game.
get_state_for_save(g) ==
    [exists |-> TRUE,
     player1_name |-> g.player1.name,
     player1_score |-> g.player1.score,
     player1_id |-> g.player1.id,
     player2_name |-> g.player2.name,
     player2_score |-> g.player2.score,
     player2_id |-> g.player2.id,
     computer_score |-> g.computer_score,
     turn_score |-> g.turn_score,
     game_over |-> g.game_over,
     winning_score |-> winning_score,
     current_difficulty |-> g.current_difficulty,
     is_vs_computer |-> (g.player2 = NoPlayer),
     current_player_name |->
         IF g.current_player = "computer" THEN "Computer"
         ELSE Deref(g, g.current_player).name]

\* PersistenceManager.load_game on a record that SaveManager.load_game
\* parsed and whose scores are not negative.  The players are new objects,
\* so a winner set before the call no longer denotes a participant.
PersistenceManager_load_game(g, d) ==
    LET p1 == [name |-> d.player1_name, id |-> d.player1_id,
               score |-> d.player1_score]
        p2 == IF ~d.is_vs_computer
              THEN [name |-> d.player2_name, id |-> d.player2_id,
                    score |-> d.player2_score]
              ELSE NoPlayer
    IN [g EXCEPT !.player1 = p1, !.player2 = p2,
                 !.computer_score = d.computer_score,
                 !.turn_score = d.turn_score,
                 !.game_over = d.game_over,
                 !.current_difficulty = Lower(d.current_difficulty),
                 !.current_player =
                     IF d.current_player_name = p1.name THEN "player1"
                     ELSE IF p2 # NoPlayer /\ d.current_player_name = p2.name
                     THEN "player2"
                     ELSE "computer",
                 !.winner = IF g.winner = "None" THEN "None" ELSE "stale"]

\* The dictionary json.load returns for a damaged file of the facade.
DamagedState(d, damage) ==
    IF damage = "negative player1 score" THEN [d EXCEPT !.player1_score = -1]
    ELSE IF damage = "negative player2 score"
    THEN [d EXCEPT !.player2_score = -1]
    ELSE IF damage = "unknown current player"
    THEN [d EXCEPT !.current_player_name = "Zed"]
    ELSE IF damage = "wrong game_over"
    THEN [d EXCEPT !.game_over = ~d.game_over]
    ELSE IF damage = "unknown difficulty"
    THEN [d EXCEPT !.current_difficulty = "bogus"]
    ELSE IF damage = "negative turn_score"
    THEN [d EXCEPT !.turn_score = -5]
    ELSE IF damage = "negative computer score"
    THEN [d EXCEPT !.computer_score = -3]
    ELSE d

\* PersistenceManager.load_game on an existing file.  A negative score
\* raises ValueError before the state is touched; an absent turn_score
\* raises KeyError after player1, player2 and computer_score were assigned,
\* and the current player still is the Player object it was before; a
\* winner that is this object stays the same object as the current player.
PersistenceManager_load_game_file(g, d, damage) ==
    IF damage = "unparsable" THEN [g |-> g, ok |-> FALSE]
    ELSE IF d.player1_score < 0 THEN [g |-> g, ok |-> FALSE]
    ELSE IF ~d.is_vs_computer /\ d.player2_score < 0
    THEN [g |-> g, ok |-> FALSE]
    ELSE IF damage = "no turn_score"
    THEN LET whole == PersistenceManager_load_game(g, d)
             held == g.current_player \in {"player1", "player2", "detached"}
         IN [g |-> [g EXCEPT !.player1 = whole.player1,
                             !.player2 = whole.player2,
                             !.computer_score = whole.computer_score,
                             !.current_player =
                                 IF held THEN "detached" ELSE g.current_player,
                             !.detached =
                                 IF held THEN Deref(g, g.current_player)
                                 ELSE g.detached,
                             !.winner =
                                 IF held /\ g.winner = g.current_player
                                 THEN "detached" ELSE whole.winner],
             ok |-> FALSE]
    ELSE [g |-> PersistenceManager_load_game(g, d), ok |-> TRUE]

\* ------------------------------------------------------------------ actions
\* Every action is one call of a public operation; result holds the name of
\* the operation and what it returned or raised.
Game == impl = "Game"
Facade == impl = "Facade"

Names == {"Alice", "Bob"}

\* The names typed for player1: a new one, the one of player2, and none.
NewNames == {"Zed", "Bob", ""}
DifficultyInputs == {"Noob", "bogus"}
TurnInputs == {"None", "Noob", "bogus"}

\* What the last call returned: op names the method called, err names the exception it raised, ok is
\* the success flag or truth value returned, ret the numbers returned.
NoResult == [op |-> "None", err |-> "None", ok |-> TRUE, ret |-> <<>>]
Raised(op, e) == result' = [op |-> op, err |-> e, ok |-> FALSE, ret |-> <<>>]
Returned(op, ok, ret) ==
    result' = [op |-> op, err |-> "None", ok |-> ok, ret |-> ret]

\* A cheat call: ret keeps the code that was passed.
CheatResult(op, e, ok, cheat_code) ==
    result' = [op |-> op, err |-> e, ok |-> ok, ret |-> <<cheat_code>>]

\* The uuid a newly created Player gets: one no Player in use or on record
\* carries.
Max(a, b) == IF a >= b THEN a ELSE b
NextId ==
    1 + Max(Max(Max(player1.id, player2.id), detached.id),
            IF saved.exists
            THEN Max(saved.state.player1.id, saved.state.player2.id)
            ELSE 0)

\* ------------------------------------------------------- game-end records
\* No game was recorded since the game at hand was started or loaded.
NoEvent == [winner |-> "None", loser |-> "None", winner_score |-> 0,
            loser_score |-> 0]
NoGames == [count |-> 0, event |-> NoEvent]

\* Game._record_game_in_highscore: the arguments HighScore.record_game is
\* called with, the computer standing for the Player("Computer") made up
\* for the call.
_record_game_in_highscore(g) ==
    IF g.computer_won
    THEN [winner |-> "computer", loser |-> "player1",
          winner_score |-> g.computer_score,
          loser_score |-> g.player1.score]
    ELSE [winner |-> g.winner,
          loser |-> IF g.player2 # NoPlayer THEN "player2" ELSE "computer",
          winner_score |-> Deref(g, g.winner).score,
          loser_score |-> IF g.player2 # NoPlayer THEN g.player2.score
                          ELSE g.computer_score]

\* StatsManager.record_game: the arguments HighScore.record_game is called
\* with.
StatsManager_record_game(g) ==
    IF g.computer_won
    THEN [winner |-> "computer", loser |-> "player1",
          winner_score |-> g.computer_score,
          loser_score |-> g.player1.score]
    ELSE IF g.player2 # NoPlayer
    THEN LET loser == IF g.winner = "player1" THEN "player2" ELSE "player1"
         IN [winner |-> g.winner, loser |-> loser,
             winner_score |-> Deref(g, g.winner).score,
             loser_score |-> Deref(g, loser).score]
    ELSE [winner |-> g.winner, loser |-> "computer",
          winner_score |-> Deref(g, g.winner).score,
          loser_score |-> g.computer_score]

\* The stats sink receives one more game-end record.
Emit(event) == recorded' = [count |-> recorded.count + 1, event |-> event]

RollDiceOf(limit) ==
    /\ \E roll \in DieFaces :
         \/ /\ Game
            /\ LET r == roll_dice(S, roll)
               IN /\ ~r.raised => drawn < limit
                  /\ Set(r.g)
                  /\ IF r.raised THEN Raised("roll_dice", "ValueError")
                     ELSE Returned("roll_dice", TRUE, <<roll>>)
                  /\ drawn' = IF r.raised THEN drawn ELSE drawn + 1
                  /\ histogram' = IF r.raised THEN histogram
                                  ELSE histogram + 1
         \/ /\ Facade
            /\ LET r == MoveManager_roll_dice(S, roll)
               IN /\ r.ret # 0 => drawn < limit
                  /\ Set(r.g) /\ Returned("roll_dice", r.ret # 0, <<r.ret>>)
                  /\ drawn' = IF r.ret # 0 THEN drawn + 1 ELSE drawn
                  /\ histogram' = IF r.ret # 0 THEN histogram + 1
                                  ELSE histogram
    /\ UNCHANGED <<recorded, ai, damaged, impl, file, saved, cheats>>

RollDice == RollDiceOf(MaxRolls)

Hold ==
    /\ \/ /\ Game
          /\ LET r == hold(S)
             IN /\ Set(r.g)
                /\ IF r.raised THEN Raised("hold", "ValueError")
                   ELSE Returned("hold", TRUE, <<>>)
                /\ IF ~r.raised /\ r.g.game_over
                   THEN Emit(_record_game_in_highscore(r.g))
                   ELSE UNCHANGED recorded
       \/ /\ Facade
          /\ LET r == MoveManager_hold(S)
             IN /\ Set(r.g)
                /\ IF r.ret = "ValueError" THEN Raised("hold", "ValueError")
                   ELSE Returned("hold", r.ret # "Cannot hold", <<>>)
                /\ IF r.ret = "wins" THEN Emit(StatsManager_record_game(r.g))
                   ELSE UNCHANGED recorded
    /\ UNCHANGED <<ai, damaged, impl, file, saved, cheats, drawn, histogram>>

\* Game.computer_turn adds every value it draws to the histogram;
\* MoveManager.execute_computer_turn records none of the values that
\* DiceDifficulty.roll draws.
ComputerTurnOf(limit) ==
    /\ \/ /\ Game /\ (player2 # NoPlayer \/ game_over)
          /\ Set(S) /\ Raised("computer_turn", "ValueError")
          /\ UNCHANGED <<drawn, histogram, recorded>>
       \/ /\ Game /\ player2 = NoPlayer /\ ~game_over
          /\ drawn < limit
          /\ \E difficulty \in TurnInputs :
               LET mode == ModeUsed(IF difficulty # "None" THEN difficulty
                                    ELSE current_difficulty)
               IN \E draws \in Draws(mode, MaxDraws) :
                    /\ Set(computer_turn(S, draws))
                    /\ Returned("computer_turn", TRUE, draws)
                    /\ IF computer_turn(S, draws).game_over
                       THEN Emit(_record_game_in_highscore(
                                     computer_turn(S, draws)))
                       ELSE UNCHANGED recorded
                    /\ drawn' = drawn + Len(draws)
                    /\ histogram' = histogram + Len(draws)
       \/ /\ Facade
          /\ drawn < limit
          /\ \E draws \in IF current_difficulty \in Tiers
                           THEN Draws(current_difficulty, MaxDraws)
                           ELSE {<<>>} :
               LET r == execute_computer_turn(S, draws)
               IN /\ Set(r.g)
                  /\ Returned("computer_turn",
                              r.ret \notin {"Cannot hold", "AI Error"},
                              <<r.ret>>)
                  /\ IF r.ret = "wins"
                     THEN Emit(StatsManager_record_game(r.g))
                     ELSE UNCHANGED recorded
                  /\ drawn' = drawn + Len(draws)
                  /\ UNCHANGED histogram
    /\ UNCHANGED <<ai, damaged, impl, file, saved, cheats>>

ComputerTurn == ComputerTurnOf(MaxRolls)

Restart ==
    /\ \/ Game /\ Set(restart(S))
       \/ Facade /\ Set(reset_for_new_game(S))
    /\ Returned("restart", TRUE, <<>>)
    /\ recorded' = NoGames
    /\ UNCHANGED <<ai, damaged, impl, file, saved, cheats, drawn, histogram>>

\* Game.apply_cheat, the programmatic entry point of the cheat codes.
ApplyCheatOf(codes, limit) ==
    /\ Game
    /\ cheats < limit
    /\ \E cheat_code \in codes :
         LET r == apply_cheat(S, cheat_code)
         IN /\ Set(r.g)
            /\ IF r.raised
               THEN CheatResult("apply_cheat", "ValueError", FALSE, cheat_code)
               ELSE CheatResult("apply_cheat", "None", r.success, cheat_code)
    /\ cheats' = cheats + 1
    /\ UNCHANGED <<recorded, ai, damaged, impl, file, saved, drawn, histogram>>

\* input_cheat_code, the entry point the shells use.
InputCheatCodeOf(codes, limit) ==
    /\ \E cheat_code \in codes :
         \/ /\ Game /\ StripUpper(cheat_code) = ""
            /\ Set(S)
            /\ CheatResult("input_cheat_code", "None", FALSE, cheat_code)
            /\ UNCHANGED <<cheats, recorded>>
         \/ /\ Game /\ StripUpper(cheat_code) # ""
            /\ cheats < limit
            /\ LET r == apply_cheat(S, cheat_code)
               IN /\ Set(r.g)
                  /\ IF r.raised
                     THEN CheatResult("input_cheat_code", "ValueError",
                                      FALSE, cheat_code)
                     ELSE CheatResult("input_cheat_code", "None", r.success,
                                      cheat_code)
                  /\ IF r.success /\ StripUpper(cheat_code) = "WIN"
                     THEN Emit(_record_game_in_highscore(r.g))
                     ELSE UNCHANGED recorded
            /\ cheats' = cheats + 1
         \/ /\ Facade
            /\ LET r == MoveManager_apply_cheat(S, cheat_code)
               IN /\ Set(r.g)
                  /\ IF r.ret = "TypeError"
                     THEN CheatResult("input_cheat_code", "TypeError", FALSE,
                                      cheat_code)
                     ELSE CheatResult("input_cheat_code", "None", FALSE,
                                      cheat_code)
            /\ UNCHANGED <<cheats, recorded>>
    /\ UNCHANGED <<ai, damaged, impl, file, saved, drawn, histogram>>

ApplyCheat == ApplyCheatOf(CheatInputs, MaxCheats)
InputCheatCode == InputCheatCodeOf(CheatInputs, MaxCheats)

SetupGameVsComputer ==
    /\ \/ Game /\ Set(setup_game_vs_computer(S))
       \/ Facade /\ Set(GameSetupManager_setup_game_vs_computer(S))
    /\ Returned("setup_game_vs_computer", TRUE, <<>>)
    /\ recorded' = NoGames
    /\ UNCHANGED <<ai, damaged, impl, file, saved, cheats, drawn, histogram>>

SetupGameVsPlayerOf(names) ==
    /\ player2 = NoPlayer => NextId <= MaxIds
    /\ \/ /\ Game
          /\ \E n \in names :
               LET r == setup_game_vs_player(S, n, NextId)
               IN /\ Set(r.g)
                  /\ Returned("setup_game_vs_player", r.ok, <<>>)
                  /\ recorded' = IF r.ok THEN NoGames ELSE recorded
       \/ /\ Facade
          /\ Set(GameSetupManager_setup_game_vs_player(S, NextId))
          /\ Returned("setup_game_vs_player", TRUE, <<>>)
          /\ recorded' = NoGames
    /\ UNCHANGED <<ai, damaged, impl, file, saved, cheats, drawn, histogram>>

\* set_player_name: player1 is renamed at any moment of the game.
SetPlayerNameOf(names) ==
    /\ \E n \in names :
         LET r == IF Game THEN set_player_name(S, n)
                  ELSE GameSetupManager_set_player_name(S, n)
         IN Set(r.g) /\ Returned("set_player_name", r.ret, <<>>)
    /\ UNCHANGED <<recorded, ai, damaged, impl, file, saved, cheats, drawn,
                   histogram>>

SetPlayer2NameOf(names) ==
    /\ player2 = NoPlayer => NextId <= MaxIds
    /\ \E n \in names :
         \/ Game /\ Set(set_player2_name(S, n, NextId))
         \/ Facade /\ Set(GameSetupManager_set_player2_name(S, n, NextId))
    /\ Returned("set_player2_name", TRUE, <<>>)
    /\ UNCHANGED <<recorded, ai, damaged, impl, file, saved, cheats, drawn,
                   histogram>>

SetDifficulty ==
    /\ \E d \in DifficultyInputs :
         LET r == IF Game THEN set_difficulty(S, d)
                  ELSE GameSetupManager_set_difficulty(S, d)
         IN Set(r.g) /\ Returned("set_difficulty", r.ret, <<>>)
    /\ UNCHANGED <<recorded, ai, damaged, impl, file, saved, cheats, drawn,
                   histogram>>

\* save_game: file is the record written; saved remembers the state the
\* game was in when it was written.
SaveGame ==
    /\ \/ /\ Game /\ current_player = "None"
          /\ Raised("save_game", "AttributeError")
          /\ UNCHANGED <<file, saved>>
       \/ /\ Game /\ current_player # "None"
          /\ file' = save_data(S)
          /\ saved' = [exists |-> TRUE, state |-> S]
          /\ Returned("save_game", TRUE, <<>>)
       \/ /\ Facade
          /\ file' = get_state_for_save(S)
          /\ saved' = [exists |-> TRUE, state |-> S]
          /\ Returned("save_game", TRUE, <<>>)
    /\ Set(S)
    /\ UNCHANGED <<recorded, ai, damaged, impl, cheats, drawn, histogram>>

\* load_game(filename) of either class; the file named is absent, the one
\* save_game wrote, or that one with a damage of damages.
LoadGameOf(damages) ==
    /\ \/ /\ ~file.exists
          /\ Set(S) /\ Returned("load_game", FALSE, <<>>)
          /\ UNCHANGED <<damaged, recorded>>
       \/ /\ Game /\ file.exists
          /\ (file.player2 # NoData /\ player2 = NoPlayer) => NextId <= MaxIds
          /\ \E damage \in damages :
               /\ damage # "None" => damaged < MaxDamaged
               /\ LET r == load_game_file(S, Damaged(file, damage),
                                          NextId, damage)
                  IN
                  /\ Set(r.g)
                  /\ Returned("load_game", r.ok,
                              IF damage = "None" THEN <<>> ELSE <<damage>>)
                  /\ recorded' = IF r.ok THEN NoGames ELSE recorded
                  /\ damaged' = IF damage = "None" THEN damaged
                                ELSE damaged + 1
       \/ /\ Facade /\ file.exists
          /\ \E damage \in damages :
               /\ damage # "None" => damaged < MaxDamaged
               /\ LET r == PersistenceManager_load_game_file(
                               S, DamagedState(file, damage), damage)
                  IN
                  /\ Set(r.g)
                  /\ Returned("load_game", r.ok,
                              IF damage = "None" THEN <<>> ELSE <<damage>>)
                  /\ recorded' = IF r.ok THEN NoGames ELSE recorded
                  /\ damaged' = IF damage = "None" THEN damaged
                                ELSE damaged + 1
    /\ UNCHANGED <<ai, impl, file, saved, cheats, drawn, histogram>>

LoadGame == LoadGameOf({"None"})

\* The labels DiceDifficulty.roll is called with and the values a tier's
\* method may yield in these calls.
ModeInputs == Tiers \cup {" Noob ", "  ELITE  ", "LEGENDARY", "bogus",
                          "unknown-mode"}
AIFaces == {1, 2, Sides}

\* No call of DiceDifficulty.roll was made yet.
NoCall == [mode |-> "None", sequence |-> <<>>, raised |-> FALSE, ret |-> 0,
           draws |-> 0]

\* DiceDifficulty.roll(mode): ai holds the label, the values the tier's
\* method had in store, and what the call returned or raised.  The object
\* keeps nothing between calls, so a behaviour makes one call.
AIRollOf(modes) ==
    /\ ai = NoCall
    /\ \E mode \in modes :
         \E sequence \in IF StripLower(mode) \in Tiers
                          THEN Sequences(pattern(StripLower(mode)) \cap AIFaces,
                                         roll_counts(StripLower(mode)))
                          ELSE {<<>>} :
           LET r == DiceDifficulty_roll(mode, sequence)
           IN /\ ai' = [mode |-> mode, sequence |-> sequence,
                        raised |-> r.raised, ret |-> r.ret,
                        draws |-> r.draws]
              /\ IF r.raised THEN Raised("roll", "ValueError")
                 ELSE Returned("roll", TRUE, <<r.ret>>)
    /\ Set(S)
    /\ UNCHANGED <<impl, file, saved, cheats, drawn, histogram, damaged,
                   recorded>>

AIRoll == AIRollOf(ModeInputs)

\* The points the Player handed to Game(player1) already carries: none, or
\* the 95 of tests/test_game.py::test_hold_wins_game.
StartScores == {0, 95}

\* The state after construction: Game(player1[, player2]) of either class.
\* The shell of the facade always passes player1; the facade takes no
\* player2.
Init ==
    /\ impl \in {"Game", "Facade"}
    /\ \E points \in IF impl = "Game" THEN StartScores ELSE {0} :
         player1 = add_to_score(Player("Alice", 1), points)
    /\ player2 \in IF impl = "Game" THEN {NoPlayer, Player("Bob", 2)}
                   ELSE {NoPlayer}
    /\ current_player = "player1"
    /\ turn_score = 0
    /\ game_over = FALSE
    /\ winner = "None"
    /\ computer_won = FALSE
    /\ computer_score = 0
    /\ current_difficulty = "casual"
    /\ intelligence = (player2 = NoPlayer)
    /\ turn_history = <<>>
    /\ dice_history = <<>>
    /\ detached = NoPlayer
    /\ file = NoFile
    /\ saved = NoFile
    /\ result = NoResult
    /\ cheats = 0
    /\ drawn = 0
    /\ histogram = 0
    /\ damaged = 0
    /\ ai = NoCall
    /\ recorded = NoGames

\* Play: the moves of a game, the cheat codes and the calls that set up the
\* second participant.
Next ==
    \/ RollDice
    \/ Hold
    \/ ComputerTurn
    \/ Restart
    \/ ApplyCheat
    \/ InputCheatCode
    \/ SetupGameVsComputer
    \/ SetupGameVsPlayerOf({"Bob"})
    \/ SetPlayer2NameOf({"Bob"})

Spec == Init /\ [][Next]_vars

\* Persistence: a game is played, saved, played on and loaded.
PersistCheats == {"WIN", "SCORE25"}

NextP ==
    \/ RollDice
    \/ Hold
    \/ ComputerTurn
    \/ Restart
    \/ InputCheatCodeOf(PersistCheats, MaxCheats)
    \/ SetupGameVsComputer
    \/ SetupGameVsPlayerOf(Names)
    \/ SaveGame
    \/ LoadGame

SpecP == Init /\ [][NextP]_vars

\* Play to a win: the moves, and the codes that push the turn total or the
\* score to the winning score.
WinCheats == {"SCORE25", "WIN"}

NextW ==
    \/ RollDice
    \/ Hold
    \/ ComputerTurn
    \/ ApplyCheatOf(WinCheats, MaxCheatsW)
    \/ InputCheatCodeOf(WinCheats, MaxCheatsW)

SpecW == Init /\ [][NextW]_vars

\* Every cheat code, in either spelling, entered during play against the
\* computer or a second player.
NextC ==
    \/ RollDice
    \/ Hold
    \/ ComputerTurn
    \/ SetupGameVsPlayerOf({"Bob"})
    \/ ApplyCheatOf(AllCheatInputs, MaxCheats)
    \/ InputCheatCodeOf(AllCheatInputs, MaxCheats)

SpecC == Init /\ [][NextC]_vars

\* The histories: games are played, started anew in either mode, saved
\* and loaded.
NextH ==
    \/ RollDice
    \/ Hold
    \/ ComputerTurn
    \/ Restart
    \/ SetupGameVsComputer
    \/ SetupGameVsPlayerOf({"Bob"})
    \/ SaveGame
    \/ LoadGame

SpecH == Init /\ [][NextH]_vars

\* Records whose numbers were set below zero are loaded during play.
NegativeRecords == {"None", "negative player1 score", "negative turn_score",
                    "negative computer score"}

NextN ==
    \/ RollDice
    \/ Hold
    \/ SaveGame
    \/ LoadGameOf(NegativeRecords)

SpecN == Init /\ [][NextN]_vars

\* A game played from scores of zero with the moves and restart only.
InitT == Init /\ player1.score = 0

NextT ==
    \/ RollDiceOf(MaxRollsT)
    \/ Hold
    \/ ComputerTurnOf(MaxRollsT)
    \/ Restart

SpecT == InitT /\ [][NextT]_vars

\* The histories: a game is played, set up anew under a name that may be
\* refused, saved, and loaded from a file that is intact, does not parse
\* or lacks a key.
SetupNames == {"Bob", ""}
HistoryDamages == {"None", "unparsable", "no turn_score", "no dice_history",
                   "no winner_name"}

NextY ==
    \/ RollDice
    \/ Hold
    \/ Restart
    \/ SetupGameVsPlayerOf(SetupNames)
    \/ SaveGame
    \/ LoadGameOf(HistoryDamages)

SpecY == Init /\ [][NextY]_vars

\* Loading what is on disk: a game is played and saved, the mode is changed,
\* and a file that is absent, intact or damaged is loaded.
NextL ==
    \/ RollDice
    \/ Hold
    \/ ComputerTurn
    \/ Restart
    \/ SetupGameVsPlayerOf({"Bob"})
    \/ SaveGame
    \/ LoadGameOf(Damages)

SpecL == Init /\ [][NextL]_vars

\* Starting over: a game is played in either mode at a chosen difficulty,
\* player1 is renamed, and the game is restarted.
NextR ==
    \/ RollDice
    \/ Hold
    \/ ComputerTurn
    \/ Restart
    \/ SetDifficulty
    \/ SetupGameVsComputer
    \/ SetupGameVsPlayerOf({"Bob"})
    \/ SetPlayerNameOf(NewNames)

SpecR == Init /\ [][NextR]_vars

\* The AI strategy on its own: DiceDifficulty.roll is called with a label
\* and a supply of values.
NextA == AIRoll

SpecA == Init /\ [][NextA]_vars

\* A difficulty that is no tier: DiceDifficulty.roll is called with a label,
\* and a game is saved, loaded from a file that may name no tier, and the
\* computer's turn is played.
\* The labels handed to DiceDifficulty.roll: two that name no tier, and the
\* padded one of a tier.
UnknownLabels == {"bogus", "unknown-mode", " Noob "}

\* The save files loaded: an intact one, and one naming no tier.
DifficultyRecords == {"None", "unknown difficulty"}

NextD ==
    \/ AIRollOf(UnknownLabels)
    \/ SaveGame
    \/ LoadGameOf(DifficultyRecords)
    \/ ComputerTurn

SpecD == Init /\ [][NextD]_vars

\* =============================================================== properties
\* The score every participant must reach: Game.WINNING_SCORE, or the
\* winning score the facade's StateManager holds.
score_to_win == IF Game THEN WINNING_SCORE ELSE winning_score

\* get_game_state()['winner']: the computer once it has won, else the
\* winner slot.  The facade keeps the same two fields in its StateManager.
get_winner == IF computer_won THEN "computer" ELSE winner

\* The participant a slot reference stands for; the computer is None in
\* Game and the computer_player sentinel in the facade.
Participant(ref) == IF ref \in {"None", "computer"} THEN "computer" ELSE ref

\* The participant the turn passes to.
OtherParticipant ==
    IF player2 # NoPlayer
    THEN (IF current_player = "player1" THEN "player2" ELSE "player1")
    ELSE (IF current_player = "player1" THEN "computer" ELSE "player1")

Scores == <<player1.score, player2.score, computer_score>>

\* C1 (bust): while the game is not over, a roll that draws 1 leaves the
\* turn total 0, passes the turn to the other participant and changes no
\* score, whatever was rolled before.
C1_Bust ==
    [][(~game_over /\ result'.op = "roll_dice" /\ result'.ret = <<1>>)
       => /\ turn_score' = 0
          /\ Participant(current_player') = OtherParticipant
          /\ Scores' = Scores]_vars

\* A 1 drawn as the second value of a turn: the turn has passed on.
C1_Witness ==
    /\ result.op = "roll_dice" /\ result.ret = <<1>>
    /\ drawn >= 2
    /\ turn_score = 0
    /\ current_player # "player1"

\* A hold call that was accepted: it neither raised nor was refused.
HoldAccepted == result'.op = "hold" /\ result'.err = "None" /\ result'.ok

\* C2 (hold decides the game): an accepted hold that lifts the holder to
\* the winning score ends the game with the holder as winner and keeps the
\* turn with the holder; an accepted hold that stays below the winning
\* score leaves the game running and passes the turn to the other
\* participant.
C2_HoldDecides ==
    [][HoldAccepted
       => LET holder == current_player
              updated == IF Participant(holder) = "computer"
                         THEN computer_score'
                         ELSE IF holder = "player1" THEN player1'.score
                         ELSE player2'.score
          IN IF updated >= score_to_win
             THEN /\ game_over'
                  /\ get_winner' = Participant(holder)
                  /\ current_player' = holder
             ELSE /\ ~game_over'
                  /\ Participant(current_player') = OtherParticipant]_vars

\* A hold has just won the game for player1.
C2_Witness ==
    /\ result.op = "hold" /\ result.ok
    /\ game_over
    /\ get_winner = "player1" /\ current_player = "player1"
    /\ player1.score >= score_to_win

\* C3 (game over iff a winning score): in every reachable state the game is
\* over exactly when player1, player2 or the computer has at least the
\* winning score.
C3_GameOverIffWinningScore ==
    game_over <=> \/ player1.score >= score_to_win
                  \/ player2.score >= score_to_win
                  \/ computer_score >= score_to_win

\* C4 (winner iff game over): in every reachable state a winner is set
\* exactly when the game is over, the computer counting as the winner once
\* it has reached the winning score.
C4_WinnerIffGameOver == (get_winner # "None") <=> game_over

\* The call was refused: it raised, or returned the value that tells the
\* caller nothing was done (0 from MoveManager.roll_dice, the "Cannot hold"
\* message from MoveManager.hold).
Refused == result'.err # "None" \/ ~result'.ok

\* C5 (no move once the game is over): a roll or hold called while the game
\* is over is refused and changes nothing: no value is drawn or recorded,
\* and the turn total, the scores, the current player and the winner stay.
C5_NoMoveWhenGameOver ==
    [][(game_over /\ result'.op \in {"roll_dice", "hold"})
       => /\ Refused
          /\ drawn' = drawn /\ histogram' = histogram
          /\ dice_history' = dice_history
          /\ turn_score' = turn_score
          /\ Scores' = Scores
          /\ current_player' = current_player
          /\ winner' = winner /\ get_winner' = get_winner
          /\ game_over']_vars

\* A roll was refused with the game over and a winner set.
C5_Witness ==
    /\ result.op = "roll_dice" /\ ~result.ok
    /\ game_over /\ get_winner # "None"

\* C6 (no hold of nothing): a hold called with a turn total of 0 while the
\* game is running is refused and changes nothing: the scores, the current
\* player, the turn total, game_over and the turn history stay, so the
\* turn does not pass.
C6_HoldZeroRefused ==
    [][(~game_over /\ turn_score = 0 /\ result'.op = "hold")
       => /\ Refused
          /\ Scores' = Scores
          /\ current_player' = current_player
          /\ turn_score' = turn_score
          /\ game_over' = game_over
          /\ turn_history' = turn_history]_vars

\* C7 (what a hold banks): an accepted hold of a positive turn total in a
\* running game adds exactly that total to the holder's score, leaves the
\* other scores alone, appends one turn-history record with the holder,
\* the total held and the holder's new score, and leaves the turn total 0,
\* whether or not the hold wins the game.
C7_HoldBanks ==
    [][(~game_over /\ turn_score > 0 /\ HoldAccepted)
       => LET holder == Participant(current_player)
              held == turn_score
              banked == <<IF holder = "player1" THEN held ELSE 0,
                          IF holder = "player2" THEN held ELSE 0,
                          IF holder = "computer" THEN held ELSE 0>>
              total == IF holder = "computer" THEN computer_score + held
                       ELSE Deref(S, holder).score + held
          IN /\ \A i \in 1..3 : Scores'[i] = Scores[i] + banked[i]
             /\ turn_history' =
                    Append(turn_history,
                           [player |-> IF holder = "computer" THEN "Computer"
                                       ELSE Deref(S, holder).name,
                            turn_score |-> held,
                            total_score |-> total])
             /\ turn_score' = 0]_vars

\* C8 (a roll other than 1): in a running game a roll that draws a value v
\* other than 1 adds exactly v to the turn total, appends v to the dice
\* history of Game, returns v, and leaves the scores, the current player,
\* game_over and the winner as they were.
C8_RollAdds ==
    [][(~game_over /\ result'.op = "roll_dice" /\ ~Refused
        /\ result'.ret # <<1>>)
       => LET v == result'.ret[1]
          IN /\ v \in 2..Sides
             /\ turn_score' = turn_score + v
             /\ Game => dice_history' = Append(dice_history, v)
             /\ histogram' = histogram + 1
             /\ Scores' = Scores
             /\ current_player' = current_player
             /\ game_over' = game_over
             /\ winner' = winner /\ get_winner' = get_winner]_vars

\* Two values other than 1 rolled in a row by the same player of Game.
C8_Witness ==
    /\ Game
    /\ result.op = "roll_dice" /\ result.ret = <<Sides>>
    /\ dice_history = <<Sides, Sides>>
    /\ turn_score = 2 * Sides

\* The calls that may follow the end of a game without starting a new one.
AfterGameOver ==
    result'.op \in {"roll_dice", "hold", "computer_turn", "apply_cheat",
                    "input_cheat_code"}

\* C9 (the winner is fixed): once the game is over, no roll, hold, computer
\* turn or cheat code changes the winner, neither the winner slot nor the
\* winner that get_game_state reports.
C9_WinnerFixed ==
    [][(game_over /\ AfterGameOver)
       => winner' = winner /\ get_winner' = get_winner]_vars

\* C10 (save/load round trip): a successful load of a saved game leaves the
\* game equal to the state that was saved in both players' names, scores
\* and ids, the computer's score, the current player, the turn total,
\* game_over, the winner, the difficulty and the two histories.
C10_RoundTrip ==
    [][(result'.op = "load_game" /\ result'.ok)
       => LET s0 == saved.state
          IN /\ player1' = s0.player1
             /\ player2' = s0.player2
             /\ computer_score' = s0.computer_score
             /\ current_player' = s0.current_player
             /\ turn_score' = s0.turn_score
             /\ game_over' = s0.game_over
             /\ get_winner' = IF s0.computer_won THEN "computer"
                              ELSE s0.winner
             /\ current_difficulty' = s0.current_difficulty
             /\ dice_history' = s0.dice_history
             /\ turn_history' = s0.turn_history]_vars

\* C11 (a failed load changes nothing): when load_game reports a failure,
\* whatever the reason, every field of the game state has the value it had
\* before the call.
C11_FailedLoadKeepsState ==
    [][(result'.op = "load_game" /\ ~result'.ok) => S' = S]_vars

\* C12 (unknown identity): the load of a record whose current-player name
\* is the name of neither stored player nor of the computer is reported as
\* a failure.
C12_UnknownIdentityFails ==
    [][(result'.op = "load_game"
        /\ result'.ret = <<"unknown current player">>)
       => ~result'.ok]_vars

\* The winner that is reported is a participant whose score has reached the
\* winning score.
WinnerHasWinningScore ==
    \/ get_winner \in {"player1", "player2"}
       /\ Deref(S, get_winner).score >= score_to_win
    \/ get_winner = "computer" /\ computer_score >= score_to_win

\* C13 (game_over is validated on load): after a successful load the game
\* is over exactly if a loaded score has reached the winning score, and
\* then the winner is the participant with that score.
C13_LoadedGameOverAgrees ==
    [][(result'.op = "load_game" /\ result'.ok)
       => /\ game_over' = (\E i \in 1..3 : Scores'[i] >= score_to_win)
          /\ game_over' => WinnerHasWinningScore'
          /\ ~game_over' => get_winner' = "None"]_vars

\* C14 (restart): from any state a restart leaves the scores of player1,
\* player2 and the computer 0, the turn total 0, the game not over, no
\* winner, both histories empty and player1 the current player.
C14_RestartZeroes ==
    [][result'.op = "restart"
       => /\ Scores' = <<0, 0, 0>>
          /\ turn_score' = 0
          /\ ~game_over'
          /\ winner' = "None" /\ get_winner' = "None"
          /\ dice_history' = <<>> /\ turn_history' = <<>>
          /\ current_player' = "player1"]_vars

\* A restart after every roll of the behaviour was made, with a second
\* player at the table.
C14_Witness ==
    /\ result.op = "restart"
    /\ drawn = MaxRolls
    /\ player2 # NoPlayer

\* C15 (what a restart keeps): a restart changes neither the names nor the
\* ids of the players, nor the mode (a second player or the computer), nor
\* the winning score, nor the difficulty.
C15_RestartKeeps ==
    [][result'.op = "restart"
       => /\ player1'.name = player1.name /\ player1'.id = player1.id
          /\ player2'.name = player2.name /\ player2'.id = player2.id
          /\ intelligence' = intelligence
          /\ score_to_win' = score_to_win
          /\ current_difficulty' = current_difficulty]_vars

\* A restart of a game against the computer whose difficulty was set to
\* noob.
C15_Witness ==
    /\ result.op = "restart"
    /\ current_difficulty = "noob"
    /\ player2 = NoPlayer
    /\ drawn > 0

\* The state a restart of the present state yields.
Restarted == IF Game THEN restart(S) ELSE reset_for_new_game(S)

\* C16 (restart is idempotent): in every state a restart has produced, a
\* second restart yields that same state.
C16_RestartIdempotent == result.op = "restart" => Restarted = S

\* A restart that came after a roll.
C16_Witness == result.op = "restart" /\ drawn > 0 /\ Restarted = S

\* A computer turn that was carried out and drew a 1: Game returns the
\* values drawn, the facade a message.
BustedTurn ==
    /\ result'.op = "computer_turn" /\ result'.err = "None"
    /\ IF Game THEN result'.ret # <<>> /\ result'.ret[Len(result'.ret)] = 1
       ELSE result'.ret = <<"busted">>

\* C17 (the computer busts): a computer turn that draws a 1 draws nothing
\* after it, leaves the turn total 0 and the turn with the human, banks
\* nothing and changes no score.
C17_ComputerBust ==
    [][BustedTurn
       => /\ Game => /\ drawn' - drawn = Len(result'.ret)
                      /\ \A i \in 1..(Len(result'.ret) - 1) :
                             result'.ret[i] # 1
          /\ turn_score' = 0
          /\ current_player' = "player1"
          /\ turn_history' = turn_history
          /\ Scores' = Scores]_vars

\* A computer turn that was carried out and drew no 1.
FullTurn ==
    /\ result'.op = "computer_turn" /\ result'.err = "None"
    /\ IF Game THEN \A i \in 1..Len(result'.ret) : result'.ret[i] # 1
       ELSE result'.ret # <<"busted">>

\* The sum of a sequence of drawn values.
RECURSIVE Sum(_)
Sum(values) == IF values = <<>> THEN 0 ELSE Head(values) + Sum(Tail(values))

\* C18 (the computer holds): a computer turn without a 1 draws as many
\* values as the cap of the difficulty in force, the computer's score grows
\* by their sum and by nothing else, and the game is over exactly if that
\* score has reached the winning score.
C18_ComputerHolds ==
    [][FullTurn
       => /\ drawn' - drawn \in {roll_counts(t) : t \in Tiers}
          /\ Facade => drawn' - drawn = roll_counts(current_difficulty)
          /\ Game => /\ Len(result'.ret) = drawn' - drawn
                      /\ computer_score' =
                             computer_score + Sum(result'.ret)
          /\ computer_score' > computer_score
          /\ player1' = player1 /\ player2' = player2
          /\ game_over' = (computer_score' >= score_to_win)
          /\ game_over' => get_winner' = "computer"]_vars

\* C19 (what a computer turn returns): the value returned is the sequence of
\* the values drawn, and the roll history grows by exactly that sequence.
C19_ReturnsDraws ==
    [][(result'.op = "computer_turn" /\ result'.err = "None")
       => /\ Len(result'.ret) = drawn' - drawn
          /\ dice_history' = dice_history \o result'.ret]_vars

\* C20 (computer mode only): a computer turn asked for while a second
\* player is at the table or the game is over is refused and changes no
\* score, turn total, current player or history.
C20_ComputerModeOnly ==
    [][(result'.op = "computer_turn" /\ (player2 # NoPlayer \/ game_over))
       => /\ Refused
          /\ Scores' = Scores
          /\ turn_score' = turn_score
          /\ current_player' = current_player
          /\ dice_history' = dice_history
          /\ turn_history' = turn_history]_vars

\* DiceDifficulty.roll was called with a label that names a tier.
RolledTier == ai # NoCall /\ StripLower(ai.mode) \in Tiers

\* The cap of the tier the call named.
Cap == roll_counts(StripLower(ai.mode))

\* The positions among the first Cap values in store that hold a 1.
Ones == {i \in 1..Cap : ai.sequence[i] = 1}

\* C21 (the AI roll): a call for a tier returns 1 at the first 1 among the
\* first cap values and has drawn nothing after it; without such a 1 it has
\* drawn cap values and returns their sum.
C21_AIRoll ==
    RolledTier
    => /\ ~ai.raised
       /\ IF Ones # {}
          THEN /\ ai.ret = 1
               /\ ai.draws \in Ones
               /\ \A i \in Ones : ai.draws <= i
          ELSE /\ ai.draws = Cap
               /\ ai.ret = Sum(SubSeq(ai.sequence, 1, Cap))

\* A legendary call that met its first 1 at the ninth value.
C21_Witness ==
    /\ RolledTier /\ ai.mode = "legendary"
    /\ ai.draws = 9 /\ ai.ret = 1

\* C22 (the AI cap): a call for a tier draws at most cap values and returns
\* 1 or a sum from 2 to sides * cap; without a 1 among the values drawn the
\* result is not 1.
C22_AICap ==
    RolledTier
    => /\ ai.draws <= Cap
       /\ ai.ret = 1 \/ (2 <= ai.ret /\ ai.ret <= Sides * Cap)
       /\ Ones = {} => ai.ret # 1

\* A legendary call, spelled in capitals, that drew the top face twelve
\* times.
C22_Witness ==
    /\ RolledTier /\ ai.mode = "LEGENDARY"
    /\ ai.draws = Cap /\ ai.ret = Sides * Cap

\* C23 (unknown tier): a call of DiceDifficulty.roll with a label that is
\* no tier once trimmed and lower-cased raises before a value is drawn, and
\* a computer turn of the facade at such a difficulty is reported as
\* failed and changes nothing.
C23_UnknownTier ==
    [][/\ (ai' # ai /\ StripLower(ai'.mode) \notin Tiers)
          => ai'.raised /\ ai'.draws = 0
       /\ (Facade /\ result'.op = "computer_turn"
           /\ StripLower(current_difficulty) \notin Tiers)
          => ~result'.ok /\ S' = S /\ drawn' = drawn]_vars

\* The call has raised for the label of test_roll_invalid_mode_raises, and
\* the facade has refused a computer turn at a difficulty that is no tier.
C23_Witness ==
    /\ ai.raised /\ ai.mode = "unknown-mode"
    /\ Facade /\ result.op = "computer_turn"
    /\ current_difficulty \notin Tiers /\ ~result.ok

\* C24 (what the AI can draw): at the tier a call named, a draw can yield 1
\* and yields nothing below 1 or above the number of sides; so are the
\* values the call drew.
C24_AIDrawRange ==
    RolledTier
    => /\ 1 \in pattern(StripLower(ai.mode))
       /\ \A v \in pattern(StripLower(ai.mode)) : 1 <= v /\ v <= Sides
       /\ \A i \in 1..ai.draws : ai.sequence[i] \in 1..Sides

\* A legendary call whose first draw was a 1.
C24_Witness ==
    /\ RolledTier /\ ai.mode = "legendary"
    /\ ai.draws = 1 /\ ai.ret = 1

\* A cheat call made through either entry point of the engine.
CheatCall == result'.op \in {"apply_cheat", "input_cheat_code"}

\* The code a cheat call was given, trimmed and upper-cased.
CheatCode == StripUpper(result'.ret[1])

\* The participant a cheat is applied to: the current player, and player1
\* when Game has the computer to move.
CheatTarget ==
    IF Game /\ current_player = "None" THEN "player1" ELSE current_player

\* The score of a participant in the state g.
ScoreOf(g, ref) ==
    IF Participant(ref) = "computer" THEN g.computer_score
    ELSE Deref(g, ref).score

\* C25 (a cheat that reaches the winning score): a cheat call that leaves
\* the score of its target at or above the winning score, whether by the
\* instant-win code or by a bonus code, ends the game with the target as
\* winner.
C25_CheatWins ==
    [][(CheatCall /\ ScoreOf(S', CheatTarget) >= score_to_win)
       => game_over' /\ get_winner' = CheatTarget]_vars

\* The codes that change the game; every other code is refused.
EffectiveCodes == {"WIN", "SCORE10", "SCORE25", "BONUS5", "BONUS15"}

\* C26 (refused codes): a cheat call with LIST, HELP or a code that is not
\* recognized reports failure and leaves both players, the computer's
\* score, the turn total, the current player, game_over and the winner as
\* they were; Game returns the failure.
C26_RefusedCheat ==
    [][(CheatCall /\ CheatCode \notin EffectiveCodes)
       => /\ ~result'.ok
          /\ S' = S
          /\ Game => result'.err = "None"]_vars

\* HELP was entered in Game with points in the turn total.
C26_Witness ==
    /\ Game /\ result.op = "apply_cheat" /\ result.ret = <<"HELP">>
    /\ ~result.ok /\ turn_score > 0 /\ ~game_over

\* C27 (WIN from every score), in Game: the code WIN succeeds and leaves
\* the targeted player's score equal to the winning score, whatever the
\* score was before.
C27_WinFromEveryScore ==
    [][(Game /\ CheatCall /\ CheatCode = "WIN")
       => /\ result'.ok
          /\ ScoreOf(S', CheatTarget) = score_to_win]_vars

\* C28 (turn-total codes): a cheat call with SCORE10 or SCORE25 succeeds,
\* adds 10 or 25 to the turn total and leaves the scores, the current
\* player, game_over and the winner as they were.
C28_TurnTotalCheat ==
    [][(CheatCall /\ CheatCode \in {"SCORE10", "SCORE25"})
       => /\ result'.ok
          /\ turn_score' = turn_score
                           + (IF CheatCode = "SCORE10" THEN 10 ELSE 25)
          /\ Scores' = Scores
          /\ current_player' = current_player
          /\ game_over' = game_over
          /\ get_winner' = get_winner]_vars

\* C29 (the current player belongs to the mode): while a second player
\* exists the turn is with player1 or player2 and the computer has no
\* score; without a second player the turn is with player1 or the
\* computer.
C29_CurrentIsParticipant ==
    IF player2 # NoPlayer
    THEN current_player \in {"player1", "player2"} /\ computer_score = 0
    ELSE Participant(current_player) \in {"player1", "computer"}

\* The sequence old is kept at the head of the sequence new.
IsPrefix(old, new) ==
    Len(old) <= Len(new) /\ SubSeq(new, 1, Len(old)) = old

\* Both histories are kept and at most extended at the end by the step.
HistoriesExtended ==
    /\ IsPrefix(dice_history, dice_history')
    /\ IsPrefix(turn_history, turn_history')

\* The calls that start a new game: restart and the two setup calls, which
\* end with a restart unless the name was refused.
StartsNewGame ==
    /\ result'.op \in {"restart", "setup_game_vs_computer",
                       "setup_game_vs_player"}
    /\ result'.ok

LoadDamage == IF result'.ret = <<>> THEN "None" ELSE result'.ret[1]

ResetsScores ==
    result'.op \in {"restart", "setup_game_vs_computer",
                    "setup_game_vs_player", "set_player2_name", "load_game"}

\* C31 (scores never decrease): a step that is no restart, setup call or
\* load leaves the score of player1, of player2 and of the computer at
\* least as high as it was; so do roll, hold, computer turn and every cheat
\* code.
C31_ScoresNeverDecrease ==
    [][~ResetsScores
       => /\ player1'.score >= player1.score
          /\ player2'.score >= player2.score
          /\ computer_score' >= computer_score]_vars

\* C32 (nothing below zero): in every state the turn total and the scores
\* of player1, of player2 and of the computer are at least 0.
C32_NonNegative ==
    /\ turn_score >= 0
    /\ player1.score >= 0
    /\ player2.score >= 0
    /\ computer_score >= 0

\* C33 (every value drawn is recorded): in every state the number of roll
\* events the histogram has received equals the number of values drawn by
\* rolls and by computer turns.
C33_EveryDrawRecorded == histogram = drawn

\* The step ends a game that was running: game_over becomes true through a
\* move or a cheat code, not through a load.
GameEnds == ~game_over /\ game_over' /\ result'.op # "load_game"

\* The participant that plays against ref in the mode of the state g.
Opponent(g, ref) ==
    IF g.player2 # NoPlayer
    THEN (IF ref = "player1" THEN "player2" ELSE "player1")
    ELSE (IF Participant(ref) = "computer" THEN "player1" ELSE "computer")

\* C34 (the game-end record): a step that ends a game hands the stats sink
\* one record; its winner is a participant standing at the winning score
\* or above, its loser is the other participant of the mode, and its two
\* scores are the scores these two have after the step.
C34_GameEndRecord ==
    [][GameEnds
       => LET e == recorded'.event
          IN /\ recorded'.count = recorded.count + 1
             /\ e.winner \in {"player1", "player2", "computer"}
             /\ e.winner = get_winner'
             /\ ScoreOf(S', e.winner) >= score_to_win
             /\ e.winner_score = ScoreOf(S', e.winner)
             /\ e.loser = Opponent(S', e.winner)
             /\ e.loser_score = ScoreOf(S', e.loser)]_vars

\* C35 (the difficulty is a tier): in every state, also after a load, the
\* current difficulty is one of the six tiers.
C35_DifficultyIsTier == current_difficulty \in Tiers

\* C36 (the computer's turn is the computer's): a computer turn, in
\* whatever state it is called, leaves the scores of player1 and player2 as
\* they were.
C36_ComputerTurnSparesHumans ==
    [][result'.op = "computer_turn"
       => /\ player1'.score = player1.score
          /\ player2'.score = player2.score]_vars

\* A computer turn that was called on the computer's turn in a running
\* game and returned.
ComputersOwnTurn ==
    /\ Participant(current_player) = "computer" /\ ~game_over
    /\ result'.op = "computer_turn" /\ result'.err = "None"

\* The cap of the tier the facade plays at; DiceDifficulty.roll draws
\* nothing for a label that is no tier.
FacadeCap ==
    IF StripLower(current_difficulty) \in Tiers
    THEN roll_counts(StripLower(current_difficulty)) ELSE 0

\* C37 (the computer's turn ends): a computer turn called on the
\* computer's turn in a running game draws at most as many values as the
\* cap of the tier it plays at, stopping earlier only on a 1, and leaves
\* the game over or the turn with player1.
C37_ComputerTurnEnds ==
    [][ComputersOwnTurn
       => /\ Facade => drawn' - drawn <= FacadeCap
          /\ Game =>
               \E d \in TurnInputs :
                 LET mode == ModeUsed(IF d # "None" THEN d
                                      ELSE current_difficulty)
                     n == Len(result'.ret)
                 IN /\ drawn' - drawn = n
                    /\ n <= roll_counts(mode)
                    /\ n < roll_counts(mode) => result'.ret[n] = 1
          /\ game_over' \/ current_player' = "player1"]_vars

\* C38 (a save always succeeds): a save, in whatever state it is called,
\* returns without raising and reports success.
C38_SaveSucceeds ==
    [][result'.op = "save_game"
       => result'.err = "None" /\ result'.ok]_vars

\* The records of the turn history h that carry the name given.
RecordsOf(h, name) == SelectSeq(h, LAMBDA r : r.player = name)

\* The sum of the turn_score fields of the records of h.
RECURSIVE SumTurns(_)
SumTurns(h) ==
    IF h = <<>> THEN 0 ELSE Head(h).turn_score + SumTurns(Tail(h))

\* C39 (scores are the sums of the turn records): in a game of Game played
\* from zero with roll, hold, computer turn and restart, the score of
\* player1, of player2 and of the computer is the sum of the turn_score of
\* its records in the turn history, and the total_score of every record is
\* the sum of the turn_score of its holder's records up to that record,
\* the score the holder had right after that hold.
C39_ScoresAreSums ==
    Game
    => /\ player1.score = SumTurns(RecordsOf(turn_history, player1.name))
       /\ player2 # NoPlayer
          => player2.score = SumTurns(RecordsOf(turn_history, player2.name))
       /\ computer_score = SumTurns(RecordsOf(turn_history, "Computer"))
       /\ \A i \in 1..Len(turn_history) :
            turn_history[i].total_score =
                SumTurns(RecordsOf(SubSeq(turn_history, 1, i),
                                   turn_history[i].player))

\* Alice has held twice and the computer once in between: her score is the
\* sum of her two records.
C39_Witness ==
    /\ Game /\ Len(RecordsOf(turn_history, "Alice")) >= 2
    /\ Len(RecordsOf(turn_history, "Computer")) >= 1
    /\ player1.score > turn_history[1].turn_score

\* C40 (one game-end record per game): between two restarts, setups or
\* loads the game is recorded at most once; no operation performed while
\* game_over is already true, a repeated WIN cheat included, records the
\* game a second time.
C40_OneGameEndRecord == recorded.count <= 1
====
